---- MODULE Spec2Model ----
(***************************************************************************)
(* Model of investment_agent.py: the two fetchers (fetch_stock_data,       *)
(* fetch_news), the report builder (generate_report) and the run that      *)
(* main() performs when the "Run Analysis" button is pressed.              *)
(*                                                                         *)
(* Python values are tagged records, so that None, a str and a DataFrame   *)
(* can be told apart; a dict is a record whose DOMAIN is its key set; a    *)
(* list is a sequence.  A call that may raise evaluates to an outcome,     *)
(* Return(v) or Raise(e).  Every function of the program evaluates to a    *)
(* record holding its return value, the exception that escapes it (None    *)
(* when none does), the st.* messages it wrote and the calls it made to    *)
(* the market-data provider and to the news provider.                      *)
(***************************************************************************)
EXTENDS Integers, Sequences, FiniteSets, TLC

VARIABLES
    NEWS_API_KEY,    \* module-level credential, read once at import
    pc,              \* position of main(): idle, fetch_stock, ..., done, crashed
    ticker,          \* main's local: the upper-cased text input
    stock_data,      \* main's local: None or a DataFrame
    news_list,       \* main's local: list of headlines
    report,          \* main's local: the dict built by generate_report
    plotted,         \* the frames handed to plot_stock_data in this run
    shown,           \* the st.write lines of the report/news display
    stages,          \* the stages this run has gone through, in order
    st_log,          \* st.info / st.warning / st.error messages, in order
    provider_calls,  \* yf.download calls made, in order
    http_calls,      \* requests.get calls made, in order
    exc,             \* exception that escaped to the top of the script, or None
    call,            \* direct invocation of one function: its name and arguments
    result           \* what that invocation evaluated to

vars == <<NEWS_API_KEY, pc, ticker, stock_data, news_list, report, plotted,
          shown, stages, st_log, provider_calls, http_calls, exc, call, result>>

runVars == <<pc, ticker, stock_data, news_list, report, plotted, shown, stages, exc>>

-----------------------------------------------------------------------------
(* Bounds of the model *)

MaxRows == 3        \* rows of a downloaded price history
MaxClose == 3       \* closing prices range over 1..MaxClose
MaxArticles == 2    \* entries of a response's articles array
MaxLimit == 2       \* limits tried when fetch_news is invoked directly
MaxNews == 2        \* headlines handed to generate_report directly

(* Program constant: the default of fetch_news's limit parameter *)
DefaultLimit == 5

-----------------------------------------------------------------------------
(* Python values *)

None == [type |-> "NoneType"]

Str(s) == [type |-> "str", value |-> s]

DataFrame(closes) == [type |-> "DataFrame", Close |-> closes]

Exception(type, msg) == [type |-> type, msg |-> msg]

Return(v) == [kind |-> "return", value |-> v]

Raise(e) == [kind |-> "raise", exc |-> e]

StMsg(level, text, arg) == [level |-> level, text |-> text, arg |-> arg]

(* variant: `is not None` in place of the truth value *)
TruthyNotNone(v) == v # None

(* truth value of an optional string: None and "" are falsy *)
Truthy(v) == v # None /\ v.value # ""

(* DataFrame.empty *)
Empty(data) == Len(data.Close) = 0

(* variant: the first close in place of the maximum *)
SeqMaxFirst(s) == s[1]

SeqMax(s) == CHOOSE m \in {s[i] : i \in 1..Len(s)} : \A i \in 1..Len(s) : s[i] <= m

SeqMin(s) == CHOOSE m \in {s[i] : i \in 1..Len(s)} : \A i \in 1..Len(s) : m <= s[i]

(* float(x) of a numeric scalar keeps its value *)
Float(x) == x

(* what a function of the program evaluates to *)
Outcome(ret, e, st, provider, http) ==
    [ret |-> ret, exc |-> e, st |-> st, provider |-> provider, http |-> http]

-----------------------------------------------------------------------------
(* fetch_stock_data: lines 37-47.  `download` is the outcome of the one    *)
(* yf.download call: Return(frame) or Raise(exception).                    *)

DownloadRequest(t) == [ticker |-> t, period |-> "6mo", auto_adjust |-> TRUE]

(* variant: no except clause, the provider's exception escapes *)
fetch_stock_data_uncaught(t, download) ==
    LET req == DownloadRequest(t)
    IN  IF download.kind = "raise"
        THEN Outcome(None, download.exc, <<>>, <<req>>, <<>>)
        ELSE IF Empty(download.value)
             THEN Outcome(None, None,
                          <<StMsg("error", "No stock data found for this ticker.", "")>>,
                          <<req>>, <<>>)
             ELSE Outcome(download.value, None, <<>>, <<req>>, <<>>)

(* variant: a failed download is tried a second time *)
fetch_stock_data_retry(t, download) ==
    LET req == DownloadRequest(t)
    IN  IF download.kind = "raise"
        THEN Outcome(None, None,
                     <<StMsg("error", "Error fetching stock data", download.exc.msg)>>,
                     <<req, req>>, <<>>)
        ELSE IF Empty(download.value)
             THEN Outcome(None, None,
                          <<StMsg("error", "No stock data found for this ticker.", "")>>,
                          <<req>>, <<>>)
             ELSE Outcome(download.value, None, <<>>, <<req>>, <<>>)

(* variant: no data.empty test, a frame of zero rows is returned *)
fetch_stock_data_unchecked(t, download) ==
    LET req == DownloadRequest(t)
    IN  IF download.kind = "raise"
        THEN Outcome(None, None,
                     <<StMsg("error", "Error fetching stock data", download.exc.msg)>>,
                     <<req>>, <<>>)
        ELSE Outcome(download.value, None, <<>>, <<req>>, <<>>)

fetch_stock_data(t, download) ==
    LET req == DownloadRequest(t)
    IN  IF download.kind = "raise"
        THEN \* except Exception as e: st.error(...); return None
             Outcome(None, None,
                     <<StMsg("error", "Error fetching stock data", download.exc.msg)>>,
                     <<req>>, <<>>)
        ELSE LET data == download.value
             IN  IF Empty(data)
                 THEN Outcome(None, None,
                              <<StMsg("error", "No stock data found for this ticker.", "")>>,
                              <<req>>, <<>>)
                 ELSE Outcome(data, None, <<>>, <<req>>, <<>>)

-----------------------------------------------------------------------------
(* fetch_news: lines 49-72.  `get` is the outcome of the one requests.get  *)
(* call: Return(response) or Raise(exception); a response holds its        *)
(* status_code and its body, which is JSON or not.                         *)

NewsUrl(t, api_key, limit) ==
    [endpoint |-> "https://newsapi.org/v2/everything", q |-> t,
     sortBy |-> "publishedAt", language |-> "en", pageSize |-> limit,
     apiKey |-> api_key.value]

(* variant: response.ok, every 2xx status is let through *)
StatusAccepted2xx(status_code) == status_code \in 200..299

(* line 64: the status test that lets a response through *)
StatusAccepted(status_code) == status_code = 200

(* response.json() *)
Json(response) ==
    IF response.body.type = "json"
    THEN Return(response.body.value)
    ELSE Raise(Exception("JSONDecodeError", "Expecting value"))

(* dict.get(key, default) *)
DictGet(d, key, default) == IF key \in DOMAIN d THEN d[key] ELSE default

(* line 68, one element: f"{art['title']} ({art['source']['name']})" *)
Headline(art) ==
    IF "title" \notin DOMAIN art THEN Raise(Exception("KeyError", "'title'"))
    ELSE IF "source" \notin DOMAIN art THEN Raise(Exception("KeyError", "'source'"))
    ELSE IF "name" \notin DOMAIN art.source THEN Raise(Exception("KeyError", "'name'"))
    ELSE Return(art.title \o " (" \o art.source.name \o ")")

(* variant: the headlines come out newest-last *)
HeadlinesReversed(articles) ==
    LET n == Len(articles)
        hs == [i \in 1..n |-> Headline(articles[n + 1 - i])]
        bad == {i \in 1..n : hs[i].kind = "raise"}
    IN  IF bad # {}
        THEN Raise(hs[CHOOSE i \in bad : \A j \in bad : i <= j].exc)
        ELSE Return([i \in 1..n |-> hs[i].value])

(* variant: an entry that lacks a key is skipped *)
HeadlinesSkipMalformed(articles) ==
    LET ok == SelectSeq(articles, LAMBDA art : Headline(art).kind = "return")
    IN  Return([i \in 1..Len(ok) |-> Headline(ok[i]).value])

(* line 68, the comprehension: the first element that raises ends it *)
Headlines(articles) ==
    LET hs == [i \in 1..Len(articles) |-> Headline(articles[i])]
        bad == {i \in 1..Len(articles) : hs[i].kind = "raise"}
    IN  IF bad # {}
        THEN Raise(hs[CHOOSE i \in bad : \A j \in bad : i <= j].exc)
        ELSE Return([i \in 1..Len(articles) |-> hs[i].value])

(* lines 70-72: except Exception as e *)
NewsFailed(e, url) ==
    Outcome(<<>>, None, <<StMsg("warning", "Failed to fetch news", e.msg)>>, <<>>, <<url>>)

fetch_news(t, api_key, limit, get) ==
    IF ~Truthy(api_key)
    THEN Outcome(<<>>, None, <<>>, <<>>, <<>>)
    ELSE LET url == NewsUrl(t, api_key, limit)
         IN  IF get.kind = "raise" THEN NewsFailed(get.exc, url)
             ELSE LET response == get.value
                  IN  IF ~StatusAccepted(response.status_code)
                      THEN Outcome(<<>>, None,
                                   <<StMsg("warning", "NewsAPI returned status",
                                           response.status_code)>>,
                                   <<>>, <<url>>)
                      ELSE LET js == Json(response)
                           IN  IF js.kind = "raise" THEN NewsFailed(js.exc, url)
                               ELSE LET articles == DictGet(js.value, "articles", <<>>)
                                        news == Headlines(articles)
                                    IN  IF news.kind = "raise"
                                        THEN NewsFailed(news.exc, url)
                                        ELSE Outcome(news.value, None, <<>>, <<>>, <<url>>)

-----------------------------------------------------------------------------
(* generate_report: lines 96-104 *)

(* variant: only `data is not None` is tested; iloc[-1] of no rows raises *)
generate_report_unguarded(t, data, news) ==
    IF data # None
    THEN IF Empty(data)
         THEN Outcome(None, Exception("IndexError", "single positional indexer is out-of-bounds"),
                      <<>>, <<>>, <<>>)
         ELSE Outcome([last_close |-> Float(data.Close[Len(data.Close)]),
                       highest |-> Float(SeqMax(data.Close)),
                       lowest |-> Float(SeqMin(data.Close)),
                       news |-> news],
                      None, <<>>, <<>>, <<>>)
    ELSE Outcome([news |-> news], None, <<>>, <<>>, <<>>)

generate_report(t, data, news) ==
    IF data # None /\ ~Empty(data)
    THEN Outcome([last_close |-> Float(data.Close[Len(data.Close)]),
                  highest |-> Float(SeqMax(data.Close)),
                  lowest |-> Float(SeqMin(data.Close)),
                  news |-> news],
                 None, <<>>, <<>>, <<>>)
    ELSE Outcome([news |-> news], None, <<>>, <<>>, <<>>)

-----------------------------------------------------------------------------
(* The environment: what the user types, what the credential file holds    *)
(* and what the two providers answer.                                      *)

SeqsUpTo(S, n) == UNION {[1..k -> S] : k \in 0..n}

Chars == {"a", "p", "l", "A", "P", "L", "Z"}

UpperChar(c) ==
    CASE c = "a" -> "A"
      [] c = "p" -> "P"
      [] c = "l" -> "L"
      [] OTHER -> c

(* str.upper() *)
Upper(text) == [i \in 1..Len(text) |-> UpperChar(text[i])]

TextInputs == {<<>>, <<"a", "a", "p", "l">>, <<"A", "A", "P", "L">>, <<"Z", "Z">>}

Tickers == {Upper(text) : text \in TextInputs} \ {<<>>}

(* os.getenv("NEWS_API_KEY"): unset, set to nothing, set *)
ApiKeys == {None, Str(""), Str("k")}

Frames == {DataFrame(closes) : closes \in SeqsUpTo(1..MaxClose, MaxRows)}

Downloads ==
    {Return(f) : f \in Frames}
    \cup {Raise(Exception("ConnectionError", m)) : m \in {"timed out", "rate limited"}}

WellFormed == {[title |-> ti, source |-> [name |-> n]] : ti \in {"T1", "T2"}, n \in {"S1", "S2"}}

Malformed == {[source |-> [name |-> "S1"]], [title |-> "T1"], [title |-> "T1", source |-> [id |-> "s1"]]}

ArticleBodies(n) ==
    {[type |-> "json", value |-> [status |-> "ok", articles |-> arts]] :
        arts \in SeqsUpTo(WellFormed \cup Malformed, n)}

OtherBodies == {[type |-> "json", value |-> [status |-> "error"]], [type |-> "text"]}

Statuses == {200, 201, 404, 429, 500}

(* what requests.get may give: a 200 answer with any body, an answer of   *)
(* another status with an error object, text or a short articles array,   *)
(* or an exception                                                        *)
Gets ==
    {Return([status_code |-> 200, body |-> b]) : b \in ArticleBodies(MaxArticles) \cup OtherBodies}
    \cup {Return([status_code |-> sc, body |-> b]) :
            sc \in Statuses \ {200}, b \in ArticleBodies(1) \cup OtherBodies}
    \cup {Raise(Exception("ConnectionError", "connection refused"))}

Limits == (1..MaxLimit) \cup {DefaultLimit}

NewsLists == SeqsUpTo({"T1 (S1)", "T2 (S2)"}, MaxNews)

-----------------------------------------------------------------------------
(* plot_stock_data: lines 74-93.  The plotting surface draws whatever      *)
(* frame it is given and hands nothing back.                               *)

plot_stock_data(data, t) ==
    Outcome(None, None,
            <<StMsg("subheader", "Price & Volume Trends (Last 6 Months)", t)>>,
            <<>>, <<>>)

(* d[key] *)
DictItem(d, key) ==
    IF key \in DOMAIN d THEN Return(d[key]) ELSE Raise(Exception("KeyError", key))

(* main, lines 135-146: the report and news display.  The three price      *)
(* lines are written when stock_data is not None; the first key the        *)
(* report lacks raises KeyError.                                           *)
display(data, rep, news) ==
    LET keys == <<"last_close", "highest", "lowest">>
        labels == <<"Last Closing Price", "Highest Price (6mo)", "Lowest Price (6mo)">>
        missing == {i \in 1..3 : data # None /\ keys[i] \notin DOMAIN rep}
        prices == IF data # None
                  THEN [i \in 1..3 |-> [text |-> labels[i], value |-> DictItem(rep, keys[i]).value]]
                  ELSE <<>>
        items == IF Len(news) > 0
                 THEN [i \in 1..Len(news) |-> [text |-> "item", n |-> i, value |-> news[i]]]
                 ELSE <<[text |-> "No news found or API key missing."]>>
    IN  IF missing # {}
        THEN Outcome(None,
                     DictItem(rep, keys[CHOOSE i \in missing : \A j \in missing : i <= j]).exc,
                     <<>>, <<>>, <<>>)
        ELSE Outcome(prices \o items, None, <<>>, <<>>, <<>>)

-----------------------------------------------------------------------------
(* The run of main(), lines 112-146, one action per stage *)

(* lines 30-31, executed on every run of the script *)
ImportLog ==
    IF ~Truthy(NEWS_API_KEY)
    THEN <<StMsg("warning", "NEWS_API_KEY is not loaded from .env. News analysis will be skipped.", "")>>
    ELSE <<>>

NoCall == [fn |-> "none"]

NoResult == Outcome(None, None, <<>>, <<>>, <<>>)

Init ==
    /\ NEWS_API_KEY \in ApiKeys
    /\ pc = "idle"
    /\ ticker = Upper(<<"A", "A", "P", "L">>)
    /\ stock_data = None
    /\ news_list = <<>>
    /\ report = None
    /\ plotted = <<>>
    /\ shown = <<>>
    /\ stages = <<>>
    /\ st_log = ImportLog
    /\ provider_calls = <<>>
    /\ http_calls = <<>>
    /\ exc = None
    /\ call = NoCall
    /\ result = NoResult

(* the script starts over: locals and the page are fresh *)
Fresh(text, nextpc) ==
    /\ pc \in {"idle", "done", "crashed"}
    /\ call = NoCall
    /\ pc' = nextpc
    /\ ticker' = Upper(text)
    /\ stock_data' = None
    /\ news_list' = <<>>
    /\ report' = None
    /\ plotted' = <<>>
    /\ shown' = <<>>
    /\ stages' = <<>>
    /\ st_log' = ImportLog
    /\ provider_calls' = <<>>
    /\ http_calls' = <<>>
    /\ exc' = None
    /\ UNCHANGED <<NEWS_API_KEY, call, result>>

(* line 119 true: the button was pressed and the ticker is not empty *)
RunAnalysis ==
    \E text \in TextInputs :
        /\ Upper(text) # <<>>
        /\ Fresh(text, "fetch_stock")

(* line 119 false: button not pressed, or pressed with an empty ticker *)
Render ==
    \E text \in TextInputs, pressed \in BOOLEAN :
        /\ ~(pressed /\ Upper(text) # <<>>)
        /\ Fresh(text, "idle")

(* a stage has evaluated to r: its effects, and where main goes next *)
Effects(r, stage, nextpc) ==
    /\ stages' = Append(stages, stage)
    /\ provider_calls' = provider_calls \o r.provider
    /\ http_calls' = http_calls \o r.http
    /\ exc' = r.exc
    /\ pc' = IF r.exc # None THEN "crashed" ELSE nextpc

(* lines 121-122 *)
FetchStock ==
    /\ pc = "fetch_stock"
    /\ \E download \in Downloads :
        LET r == fetch_stock_data(ticker, download)
        IN  /\ stock_data' = r.ret
            /\ st_log' = st_log \o <<StMsg("info", "Fetching stock data for", ticker)>> \o r.st
            /\ Effects(r, "stock", "fetch_news")
    /\ UNCHANGED <<NEWS_API_KEY, ticker, news_list, report, plotted, shown, call, result>>

(* lines 125-126 *)
FetchNews ==
    /\ pc = "fetch_news"
    /\ \E get \in Gets :
        LET r == fetch_news(ticker, NEWS_API_KEY, DefaultLimit, get)
        IN  /\ news_list' = r.ret
            /\ st_log' = st_log \o <<StMsg("info", "Fetching latest news for", ticker)>> \o r.st
            /\ Effects(r, "news", "plot")
    /\ UNCHANGED <<NEWS_API_KEY, ticker, stock_data, report, plotted, shown, call, result>>

(* lines 129-130 *)
PlotStockCharts ==
    /\ pc = "plot"
    /\ IF stock_data # None
       THEN LET r == plot_stock_data(stock_data, ticker)
            IN  /\ plotted' = Append(plotted, stock_data)
                /\ st_log' = st_log \o r.st
                /\ Effects(r, "plot", "report")
       ELSE /\ pc' = "report"
            /\ UNCHANGED <<plotted, st_log, stages, provider_calls, http_calls, exc>>
    /\ UNCHANGED <<NEWS_API_KEY, ticker, stock_data, news_list, report, shown, call, result>>

(* line 133 *)
GenerateReport ==
    /\ pc = "report"
    /\ LET r == generate_report(ticker, stock_data, news_list)
       IN  /\ report' = r.ret
           /\ st_log' = st_log \o r.st
           /\ Effects(r, "report", "display")
    /\ UNCHANGED <<NEWS_API_KEY, ticker, stock_data, news_list, plotted, shown, call, result>>

(* lines 135-146 *)
Display ==
    /\ pc = "display"
    /\ LET r == display(stock_data, report, news_list)
       IN  /\ shown' = IF r.exc = None THEN r.ret ELSE shown
           /\ st_log' = st_log \o r.st
           /\ Effects(r, "display", "done")
    /\ UNCHANGED <<NEWS_API_KEY, ticker, stock_data, news_list, report, plotted, call, result>>

Stage == FetchStock \/ FetchNews \/ PlotStockCharts \/ GenerateReport \/ Display

Next == RunAnalysis \/ Render \/ Stage

Spec == Init /\ [][Next]_vars

-----------------------------------------------------------------------------
(* The functions invoked directly, one invocation at a time, on arguments  *)
(* and provider answers drawn from the sets above.                         *)

Idle == pc = "idle" /\ call = NoCall

CallFetchStockData ==
    /\ Idle
    /\ \E t \in Tickers, download \in Downloads :
        /\ call' = [fn |-> "fetch_stock_data", ticker |-> t, download |-> download]
        /\ result' = fetch_stock_data(t, download)
    /\ UNCHANGED <<NEWS_API_KEY, st_log, provider_calls, http_calls>>
    /\ UNCHANGED runVars

CallFetchNews ==
    /\ Idle
    /\ \E t \in Tickers, limit \in Limits, get \in Gets :
        /\ call' = [fn |-> "fetch_news", ticker |-> t, api_key |-> NEWS_API_KEY,
                    limit |-> limit, get |-> get]
        /\ result' = fetch_news(t, NEWS_API_KEY, limit, get)
    /\ UNCHANGED <<NEWS_API_KEY, st_log, provider_calls, http_calls>>
    /\ UNCHANGED runVars

CallGenerateReport ==
    /\ Idle
    /\ \E t \in Tickers, data \in {None} \cup Frames, news \in NewsLists :
        /\ call' = [fn |-> "generate_report", ticker |-> t, data |-> data, news |-> news]
        /\ result' = generate_report(t, data, news)
    /\ UNCHANGED <<NEWS_API_KEY, st_log, provider_calls, http_calls>>
    /\ UNCHANGED runVars

CallReturned ==
    /\ call # NoCall
    /\ call' = NoCall
    /\ result' = NoResult
    /\ UNCHANGED <<NEWS_API_KEY, st_log, provider_calls, http_calls>>
    /\ UNCHANGED runVars

UnitNext == CallFetchStockData \/ CallFetchNews \/ CallGenerateReport \/ CallReturned

UnitSpec == Init /\ [][UnitNext]_vars

-----------------------------------------------------------------------------
(* Properties *)

PriceKeys == {"last_close", "highest", "lowest"}

FullOrder == <<"stock", "news", "report", "display">>

WithoutPlot(s) == SelectSeq(s, LAMBDA x : x # "plot")

IsPrefix(a, b) == Len(a) <= Len(b) /\ a = SubSeq(b, 1, Len(a))

HasMsg(log, level, text) == \E i \in 1..Len(log) : log[i].level = level /\ log[i].text = text

CredentialAbsent(k) == k = None \/ k.value = ""

WellFormedArticle(art) ==
    /\ "title" \in DOMAIN art
    /\ "source" \in DOMAIN art
    /\ "name" \in DOMAIN art.source

(* the call is fetch_news with a credential and the provider answered *)
NewsAnswered ==
    /\ call.fn = "fetch_news"
    /\ ~CredentialAbsent(call.api_key)
    /\ call.get.kind = "return"

(* ... with status 200 and a JSON object *)
NewsJson200 ==
    /\ NewsAnswered
    /\ call.get.value.status_code = 200
    /\ call.get.value.body.type = "json"

(* C1: every run started by the button goes through stock fetch, news     *)
(* fetch, report build and display in that order and ends at display,     *)
(* whatever the two fetchers met: no exception escapes, no stage is       *)
(* skipped or repeated, a run that is under way can always take its next  *)
(* stage, and the news fetch (at most one request) comes only after the   *)
(* stock fetch has returned, also when that fetch gave no data.           *)
C1_RunReachesDisplay ==
    /\ pc # "crashed"
    /\ exc = None
    /\ IsPrefix(WithoutPlot(stages), FullOrder)
    /\ (pc = "done" => WithoutPlot(stages) = FullOrder)
    /\ (pc = "fetch_news" => stages = <<"stock">>)
    /\ (pc \notin {"idle", "done"} => ENABLED Stage)
    /\ Len(provider_calls) <= 1
    /\ Len(http_calls) <= 1
    /\ (http_calls # <<>> => Len(stages) >= 2 /\ stages[1] = "stock" /\ Len(provider_calls) = 1)

C1_Witness ==
    /\ pc = "done"
    /\ stock_data = None
    /\ HasMsg(st_log, "error", "No stock data found for this ticker.")
    /\ Len(http_calls) = 1
    /\ HasMsg(st_log, "warning", "NewsAPI returned status")

(* C10: in every run main's guard (stock_data is not None) and            *)
(* generate_report's guard (not None and not empty) agree: the frame main *)
(* holds is never empty, only non-empty frames are plotted, and the       *)
(* display reads the three price fields only from a report that has them, *)
(* so no KeyError arises.                                                 *)
C10_GuardsAgree ==
    /\ (stock_data # None => ~Empty(stock_data))
    /\ \A i \in 1..Len(plotted) : ~Empty(plotted[i])
    /\ (pc \in {"display", "done"} =>
            /\ "news" \in DOMAIN report
            /\ (stock_data # None <=> PriceKeys \subseteq DOMAIN report)
            /\ (stock_data = None <=> PriceKeys \cap DOMAIN report = {}))
    /\ exc = None
    /\ (pc = "done" /\ stock_data # None =>
            /\ Len(shown) >= 3
            /\ shown[1].value = report.last_close
            /\ shown[2].value = report.highest
            /\ shown[3].value = report.lowest)

C10_Witness ==
    /\ pc = "done"
    /\ stock_data # None
    /\ Len(plotted) = 1
    /\ Len(shown) >= 3
    /\ shown[1].text = "Last Closing Price"
    /\ report.lowest < report.highest

(* C2: generate_report never raises, whatever the ticker, the frame       *)
(* argument (None, no rows, some rows) and the news list; the report      *)
(* holds last_close, highest and lowest all three or none of them, and    *)
(* none of them exactly when the frame is None or has no rows (the keys   *)
(* are absent, no placeholder stands in).                                 *)
C2_PriceFieldsAllOrNone ==
    call.fn = "generate_report" =>
        /\ result.exc = None
        /\ "news" \in DOMAIN result.ret
        /\ LET present == PriceKeys \cap DOMAIN result.ret
           IN  /\ present = {} \/ present = PriceKeys
               /\ DOMAIN result.ret = present \cup {"news"}
               /\ (present = {} <=> (call.data = None \/ Empty(call.data)))

C2_Witness ==
    /\ call.fn = "generate_report"
    /\ call.data # None
    /\ Empty(call.data)
    /\ result.exc = None
    /\ DOMAIN result.ret = {"news"}
    /\ Len(call.news) > 0

(* C3: with a credential present and a limit > 0, the list fetch_news     *)
(* returns is no longer than limit, whatever the provider answers, also   *)
(* when its articles array holds more than limit entries.                 *)
C3_LengthWithinLimit ==
    (call.fn = "fetch_news" /\ ~CredentialAbsent(call.api_key) /\ call.limit > 0) =>
        Len(result.ret) <= call.limit

(* the outcome of a fetch_news call that got past the status test *)
Extracted ==
    /\ ~HasMsg(result.st, "warning", "NewsAPI returned status")
    /\ LET body == call.get.value.body
       IN  (body.type = "json" /\ "articles" \in DOMAIN body.value
                /\ \A i \in 1..Len(body.value.articles) : WellFormedArticle(body.value.articles[i]))
           => /\ Len(result.ret) = Len(body.value.articles)
              /\ result.st = <<>>

(* the outcome of a fetch_news call stopped by the status test *)
StatusRejected ==
    /\ result.ret = <<>>
    /\ result.exc = None
    /\ Len(result.st) = 1
    /\ result.st[1].level = "warning"
    /\ result.st[1].text = "NewsAPI returned status"
    /\ result.st[1].arg = call.get.value.status_code
    /\ Len(result.http) = 1

(* C4 as stated: with a credential present the HTTP status class decides: *)
(* every non-2xx status gives the empty list and a warning, no exception  *)
(* and no second request; every 2xx status, not only 200, goes on to      *)
(* extract the articles and return their headlines.                       *)
C4_StatusClassDecides ==
    NewsAnswered =>
        IF call.get.value.status_code \in 200..299 THEN Extracted ELSE StatusRejected

(* C4 amended: with a credential present the status decides by equality   *)
(* with 200: every other status, 201 and the rest of 2xx included, gives  *)
(* the empty list and a warning carrying the status, no exception and no  *)
(* second request; status 200 goes on to extract the articles and return  *)
(* their headlines.                                                       *)
C4_Status200Decides ==
    NewsAnswered =>
        IF call.get.value.status_code = 200 THEN Extracted ELSE StatusRejected

C4_Witness ==
    /\ NewsAnswered
    /\ call.get.value.status_code = 201
    /\ call.get.value.body.type = "json"
    /\ "articles" \in DOMAIN call.get.value.body.value
    /\ Len(call.get.value.body.value.articles) = 1
    /\ WellFormedArticle(call.get.value.body.value.articles[1])
    /\ StatusRejected

(* C5: when the credential is absent (unset or empty) fetch_news returns  *)
(* the empty list for every ticker and limit, makes no request and        *)
(* raises nothing.                                                        *)
C5_NoCredentialNoRequest ==
    (call.fn = "fetch_news" /\ CredentialAbsent(call.api_key)) =>
        /\ result.ret = <<>>
        /\ result.http = <<>>
        /\ result.exc = None
        /\ result.st = <<>>

C5_Witness ==
    /\ call.fn = "fetch_news"
    /\ call.api_key = Str("")
    /\ call.limit = 1
    /\ call.get.kind = "return"
    /\ call.get.value.status_code = 200
    /\ result.ret = <<>>
    /\ result.http = <<>>

(* C6: fetch_stock_data calls the provider exactly once and ends in one   *)
(* of three ways: at least one row, the frame is returned as it came;     *)
(* zero rows, the "no data" error is reported and None returned; the      *)
(* provider call raised, an error carrying the cause message is reported  *)
(* and None returned.  No exception escapes, nothing is retried, and a    *)
(* returned frame is never empty.                                         *)
C6_StockFetchOutcomes ==
    call.fn = "fetch_stock_data" =>
        /\ result.provider = <<DownloadRequest(call.ticker)>>
        /\ result.http = <<>>
        /\ result.exc = None
        /\ IF call.download.kind = "raise"
           THEN /\ result.ret = None
                /\ Len(result.st) = 1
                /\ result.st[1].level = "error"
                /\ result.st[1].text = "Error fetching stock data"
                /\ result.st[1].arg = call.download.exc.msg
           ELSE IF Len(call.download.value.Close) = 0
                THEN /\ result.ret = None
                     /\ Len(result.st) = 1
                     /\ result.st[1].level = "error"
                     /\ result.st[1].text = "No stock data found for this ticker."
                ELSE /\ result.ret = call.download.value
                     /\ result.st = <<>>
        /\ (result.ret # None => Len(result.ret.Close) > 0)

C6_Witness ==
    /\ call.fn = "fetch_stock_data"
    /\ call.download.kind = "raise"
    /\ result.ret = None
    /\ Len(result.provider) = 1
    /\ result.st[1].arg = "timed out"

(* C7: for every frame with at least one row the report has               *)
(* lowest <= last_close <= highest, last_close being the close of the     *)
(* last row, highest the greatest and lowest the least close of the       *)
(* whole frame.                                                           *)
C7_PriceOrder ==
    (call.fn = "generate_report" /\ call.data # None /\ ~Empty(call.data)) =>
        LET closes == call.data.Close
            rep == result.ret
        IN  /\ rep.lowest <= rep.last_close
            /\ rep.last_close <= rep.highest
            /\ rep.last_close = closes[Len(closes)]
            /\ \A i \in 1..Len(closes) : rep.lowest <= closes[i] /\ closes[i] <= rep.highest
            /\ \E i \in 1..Len(closes) : closes[i] = rep.highest
            /\ \E i \in 1..Len(closes) : closes[i] = rep.lowest

C7_Witness ==
    /\ call.fn = "generate_report"
    /\ call.data # None
    /\ Len(call.data.Close) = 3
    /\ result.ret.lowest < result.ret.last_close
    /\ result.ret.last_close < result.ret.highest
    /\ result.ret.highest = call.data.Close[1]

(* C8: when the provider answers 200 with articles that are all           *)
(* well-formed, fetch_news returns one item per article in the            *)
(* provider's order, the i-th being "{title} ({source name})" of the      *)
(* i-th article, with nothing sorted, dropped or merged; an answer        *)
(* without an articles field gives the empty list.                        *)
C8_HeadlinesInOrder ==
    NewsJson200 =>
        LET body == call.get.value.body.value
        IN  IF "articles" \notin DOMAIN body
            THEN result.ret = <<>> /\ result.st = <<>>
            ELSE (\A i \in 1..Len(body.articles) : WellFormedArticle(body.articles[i])) =>
                    /\ Len(result.ret) = Len(body.articles)
                    /\ \A i \in 1..Len(body.articles) :
                          result.ret[i] = body.articles[i].title \o " (" \o
                                          body.articles[i].source.name \o ")"
                    /\ result.st = <<>>
                    /\ result.exc = None

C8_Witness ==
    /\ NewsJson200
    /\ "articles" \in DOMAIN call.get.value.body.value
    /\ result.ret = <<"T2 (S1)", "T1 (S2)">>

(* C9: fetch_news is all-or-nothing: when any article of a 200 answer     *)
(* lacks its title, its source or its source name, wherever it stands in  *)
(* the array, the result is the empty list and one warning, and no        *)
(* exception reaches the caller; the well-formed articles before or       *)
(* after it are never returned on their own.                              *)
C9_AllOrNothing ==
    NewsJson200 =>
        LET body == call.get.value.body.value
        IN  ("articles" \in DOMAIN body
                /\ \E i \in 1..Len(body.articles) : ~WellFormedArticle(body.articles[i])) =>
                    /\ result.ret = <<>>
                    /\ result.exc = None
                    /\ Len(result.st) = 1
                    /\ result.st[1].level = "warning"
                    /\ result.st[1].text = "Failed to fetch news"

C9_Witness ==
    /\ NewsJson200
    /\ "articles" \in DOMAIN call.get.value.body.value
    /\ Len(call.get.value.body.value.articles) = 2
    /\ WellFormedArticle(call.get.value.body.value.articles[1])
    /\ ~WellFormedArticle(call.get.value.body.value.articles[2])
    /\ result.ret = <<>>
    /\ result.st[1].arg = "'source'"

====
